---- MODULE Spec2Model ----
(***************************************************************************)
(* A model of the flow engine (package approval): the Graph built by       *)
(* NewProcess from a Process definition, the ProcessRegistry's four        *)
(* handler maps, and ProcessHandler.ProcessNode / ProcessEdge, one step    *)
(* per handler invocation.                                                 *)
(***************************************************************************)
EXTENDS Integers, Sequences, FiniteSets, TLC

\* The longest Process.Edges sequence a caller supplies.
MaxEdges == 2

----------------------------------------------------------------------------
\* Values

NodeTypes == {"tA", "tB"}
EdgeTypes == {"x", "y"}

\* Node IDs a caller may pass to ProcessNode; "Z" names no node.
NodeIDs == {"A", "B", "Z"}

\* A process instance is one caller running ProcessNode calls.
Inst == {1, 2}

\* The absent entry of a handler map, and the nil ProcessHandler.circulate.
NoHandler == "none"

\* error values: nil, the four errors ProcessNode and ProcessEdge make with
\* fmt.Errorf, and the errors a registered handler returns (opaque values).
Nil == [kind |-> "nil", arg |-> "-"]
Pending == [kind |-> "pending", arg |-> "-"]
ErrNodeNotExist(nodeID) == [kind |-> "NodeNotExist", arg |-> nodeID]
ErrNoNodeHandler(nodeType) == [kind |-> "NoNodeHandler", arg |-> nodeType]
ErrNoEdgeHandler(edgeType) == [kind |-> "NoEdgeHandler", arg |-> edgeType]
ErrNoDstNode(edgeID) == [kind |-> "NoDstNode", arg |-> edgeID]
HandlerErrs == {[kind |-> "handler", arg |-> "boom"]}

Node(id, t) == [ID |-> id, NodeType |-> t]
Edge(id, src, dst, prio, t) ==
    [ID |-> id, SrcID |-> src, DstID |-> dst, Priority |-> prio, EdgeType |-> t]

\* The nodes of the definitions explored: A and B, of different types.
DefNodes == <<Node("A", "tA"), Node("B", "tB")>>

\* The edges a definition is drawn from: distinct and tied priorities, a
\* second edge type, a destination that names no node, and an edge of B.
EdgePool ==
    { Edge("e1", "A", "B", 1, "x"),
      Edge("e2", "A", "B", 2, "x"),
      Edge("e3", "A", "B", 1, "y"),
      Edge("e4", "A", "Z", 3, "x"),
      Edge("e5", "B", "A", 1, "x") }

Range(s) == {s[k] : k \in DOMAIN s}

\* No GetNextNodes call has been made.
NoQuery == [nodeID |-> "", edges |-> <<>>, nodes |-> <<>>, err |-> Nil]

\* The sequences that list every element of the finite set S once.
Perms(S) ==
    {s \in [1..Cardinality(S) -> S] : \A a \in S : \E k \in DOMAIN s : s[k] = a}

\* The edge sequences of length at most MaxEdges without a repeated edge ID.
EdgeSeqs ==
    UNION { {s \in [1..n -> EdgePool] :
                \A j, k \in 1..n : j # k => s[j].ID # s[k].ID} : n \in 0..MaxEdges }

----------------------------------------------------------------------------
VARIABLES
    process,             \* the caller's Process: [Nodes, Edges]
    built,               \* whether NewProcess has run
    nodes, edges,        \* Graph.nodes, Graph.edges: ID -> record
    nodeHandlers, nodeAfterHandlers, nodeBeforeHandlers, edgeHandlers,
    circulate,           \* ProcessHandler.circulate, NoHandler when nil
    active,              \* the instances that make calls
    path,                \* per instance: the nodes its caller has stood at
    regLog,              \* history: the Register calls made, in order
    queried,             \* what the last GetNextNodes call returned
    pc,                  \* per instance: where its ProcessNode call stands
    arg,                 \* per instance: the nodeID of the call
    outgoing,            \* per instance: what GetOutgoingEdges returned
    idx,                 \* per instance: position of the range loop
    log,                 \* per instance: the handler invocations of the call
    result,              \* per instance: the error the call returned
    orderSeen            \* history: the first edge order returned per node ID

graphVars == <<process, built, nodes, edges>>
registryVars == <<nodeHandlers, nodeAfterHandlers, nodeBeforeHandlers,
                  edgeHandlers, circulate, regLog>>
callVars == <<pc, arg, outgoing, idx, log, result>>
callerVars == <<active, path>>
vars == <<graphVars, registryVars, callVars, callerVars, orderSeen, queried>>

----------------------------------------------------------------------------
\* Graph

\* The map a range loop with m[x.ID] = x builds: a later element replaces an
\* earlier one of the same ID.
IndexByID(s) ==
    [id \in {s[k].ID : k \in DOMAIN s} |->
        LET last == CHOOSE k \in DOMAIN s :
                        /\ s[k].ID = id
                        /\ \A j \in DOMAIN s : s[j].ID = id => j <= k
        IN  s[last]]

\* sort.Slice by Priority: some reordering into non-descending Priority; the
\* order of elements of equal Priority is not specified.
SortByPriority(s) ==
    { [k \in DOMAIN s |-> s[p[k]]] : p \in
        { q \in Perms(DOMAIN s) :
            \A j, k \in DOMAIN s : j < k => s[q[j]].Priority <= s[q[k]].Priority } }

GetNodeByID(nodeID) ==
    [exists |-> nodeID \in DOMAIN nodes,
     node |-> IF nodeID \in DOMAIN nodes THEN nodes[nodeID] ELSE Node("", "")]

\* GetOutgoingEdges without the test of the edge's source.
GetOutgoingEdgesUnfiltered(nodeID) == Perms(Range(edges))

\* The slices a range over the edges map can build: the edges of the source
\* node in any order (the iteration order of a map is not specified).
GetOutgoingEdges(nodeID) ==
    Perms({e \in Range(edges) : e.SrcID = nodeID})

\* GetNextNodeByEdge looking up the edge's source instead of its destination.
GetNextNodeBySrc(edge) ==
    IF GetNodeByID(edge.SrcID).exists
    THEN [node |-> GetNodeByID(edge.SrcID).node, err |-> Nil]
    ELSE [node |-> Node("", ""), err |-> ErrNoDstNode(edge.ID)]

GetNextNodeByEdge(edge) ==
    IF GetNodeByID(edge.DstID).exists
    THEN [node |-> GetNodeByID(edge.DstID).node, err |-> Nil]
    ELSE [node |-> Node("", ""), err |-> ErrNoDstNode(edge.ID)]

NewProcess ==
    /\ ~built
    /\ nodes' = IndexByID(process.Nodes)
    /\ edges' = IndexByID(process.Edges)
    /\ \E sorted \in SortByPriority(process.Edges) :
          process' = [process EXCEPT !.Edges = sorted]
    /\ built' = TRUE
    /\ UNCHANGED <<registryVars, callVars, callerVars, orderSeen, queried>>

\* The nodes GetNextNodes appends for the edges o: one for each edge whose
\* destination is in the graph, in the order of o.
DstNodes(o) ==
    LET F[k \in 0..Len(o)] ==
            IF k = 0 THEN <<>>
            ELSE IF GetNodeByID(o[k].DstID).exists
                 THEN Append(F[k - 1], GetNodeByID(o[k].DstID).node)
                 ELSE F[k - 1]
    IN  F[Len(o)]

\* GetNextNodes failing on an edge whose destination is not in the graph.
GetNextNodesStrict(nodeID) ==
    { [edges |-> o,
       nodes |-> IF \E k \in DOMAIN o : ~GetNodeByID(o[k].DstID).exists
                 THEN <<>> ELSE DstNodes(o),
       err |-> IF \E k \in DOMAIN o : ~GetNodeByID(o[k].DstID).exists
               THEN ErrNoDstNode(o[CHOOSE k \in DOMAIN o :
                                     ~GetNodeByID(o[k].DstID).exists].ID)
               ELSE Nil] : o \in GetOutgoingEdges(nodeID) }

\* What GetNextNodes can return, with the edges its range loop went over.
GetNextNodes(nodeID) ==
    { [edges |-> o, nodes |-> DstNodes(o), err |-> Nil] :
        o \in GetOutgoingEdges(nodeID) }

\* A caller asks the graph for the next nodes of nodeID.
GetNextNodesCall(nodeID) ==
    /\ built
    /\ \E r \in GetNextNodes(nodeID) :
          queried' = [nodeID |-> nodeID, edges |-> r.edges, nodes |-> r.nodes,
                      err |-> r.err]
    /\ UNCHANGED <<graphVars, registryVars, callVars, callerVars, orderSeen>>

----------------------------------------------------------------------------
\* Registry

\* The handler functions callers register.
HandlerIDs == {"h", "g"}

\* How many Register calls a behaviour of SpecRegistry makes.
MaxRegs == 3

Registration(kind, tag, handler) == [kind |-> kind, tag |-> tag, handler |-> handler]

\* RegisterNodeAfterHandler filing the handler in the on-handler map.
RegisterNodeAfterHandlerMisfiled(nodeType, handler) ==
    /\ Len(regLog) < MaxRegs
    /\ nodeHandlers' = [nodeHandlers EXCEPT ![nodeType] = handler]
    /\ regLog' = Append(regLog, Registration("nodeAfter", nodeType, handler))
    /\ UNCHANGED <<nodeAfterHandlers, nodeBeforeHandlers, edgeHandlers, circulate>>
    /\ UNCHANGED <<graphVars, callVars, callerVars, orderSeen, queried>>

RegisterNodeHandler(nodeType, handler) ==
    /\ Len(regLog) < MaxRegs
    /\ nodeHandlers' = [nodeHandlers EXCEPT ![nodeType] = handler]
    /\ regLog' = Append(regLog, Registration("node", nodeType, handler))
    /\ UNCHANGED <<nodeAfterHandlers, nodeBeforeHandlers, edgeHandlers, circulate>>
    /\ UNCHANGED <<graphVars, callVars, callerVars, orderSeen, queried>>

RegisterNodeAfterHandler(nodeType, handler) ==
    /\ Len(regLog) < MaxRegs
    /\ nodeAfterHandlers' = [nodeAfterHandlers EXCEPT ![nodeType] = handler]
    /\ regLog' = Append(regLog, Registration("nodeAfter", nodeType, handler))
    /\ UNCHANGED <<nodeHandlers, nodeBeforeHandlers, edgeHandlers, circulate>>
    /\ UNCHANGED <<graphVars, callVars, callerVars, orderSeen, queried>>

RegisterNodeBeforeHandler(nodeType, handler) ==
    /\ Len(regLog) < MaxRegs
    /\ nodeBeforeHandlers' = [nodeBeforeHandlers EXCEPT ![nodeType] = handler]
    /\ regLog' = Append(regLog, Registration("nodeBefore", nodeType, handler))
    /\ UNCHANGED <<nodeHandlers, nodeAfterHandlers, edgeHandlers, circulate>>
    /\ UNCHANGED <<graphVars, callVars, callerVars, orderSeen, queried>>

RegisterEdgeHandler(edgeType, handler) ==
    /\ Len(regLog) < MaxRegs
    /\ edgeHandlers' = [edgeHandlers EXCEPT ![edgeType] = handler]
    /\ regLog' = Append(regLog, Registration("edge", edgeType, handler))
    /\ UNCHANGED <<nodeHandlers, nodeAfterHandlers, nodeBeforeHandlers, circulate>>
    /\ UNCHANGED <<graphVars, callVars, callerVars, orderSeen, queried>>

GetNodeHandler(nodeType) ==
    [handler |-> nodeHandlers[nodeType], exists |-> nodeHandlers[nodeType] # NoHandler]

GetNodeAfterHandler(nodeType) ==
    [handler |-> nodeAfterHandlers[nodeType],
     exists |-> nodeAfterHandlers[nodeType] # NoHandler]

GetNodeBeforeHandler(nodeType) ==
    [handler |-> nodeBeforeHandlers[nodeType],
     exists |-> nodeBeforeHandlers[nodeType] # NoHandler]

GetEdgeHandler(edgeType) ==
    [handler |-> edgeHandlers[edgeType], exists |-> edgeHandlers[edgeType] # NoHandler]

----------------------------------------------------------------------------
\* ProcessHandler.ProcessNode, one action per handler invocation

NoOrder == <<"none">>

IDs(s) == [k \in DOMAIN s |-> s[k].ID]

\* One handler invocation, as the call's log keeps it.
Invocation(h, id, ok, err) == [h |-> h, arg |-> id, ok |-> ok, err |-> err]

\* Where a call goes next: its pc, its result and its loop position.
Goto(p, k) == [pc |-> p, result |-> Pending, idx |-> k]
ReturnErr(err, k) == [pc |-> "done", result |-> err, idx |-> k]

\* NextEdge treating the end of the loop as a failure.
NextEdgeNoneIsError(o, k) ==
    IF k < Len(o) THEN Goto("edge", k + 1)
    ELSE ReturnErr([kind |-> "NoTransition", arg |-> ""], k)

\* The range loop's next iteration, or return nil after the last edge.
NextEdge(o, k) == IF k < Len(o) THEN Goto("edge", k + 1) ELSE ReturnErr(Nil, k)

\* Break without the break statement: the loop goes on after a transition.
BreakOmitted(o, k) == NextEdge(o, k)

\* break, then return nil.
Break(o, k) == ReturnErr(Nil, k)

\* Resolve the accepted edge's destination and look up its before-handler.
BeforeDst(edge, o, k) ==
    LET next == GetNextNodeByEdge(edge) IN
    IF next.err # Nil THEN ReturnErr(next.err, k)
    ELSE IF GetNodeBeforeHandler(next.node.NodeType).exists THEN Goto("before", k)
    ELSE Break(o, k)

\* The state change: the circulate callback, when one is set.
StateChange(edge, o, k) ==
    IF circulate # NoHandler THEN Goto("circulate", k) ELSE BeforeDst(edge, o, k)

\* Accepted without the after-handler of the source node.
AcceptedWithoutAfter(node, edge, o, k) == StateChange(edge, o, k)

\* ProcessEdge returned (true, nil): look up the source node's after-handler.
Accepted(node, edge, o, k) ==
    IF GetNodeAfterHandler(node.NodeType).exists THEN Goto("after", k)
    ELSE StateChange(edge, o, k)

\* AfterProcessEdge without the test of ok: a declined edge is taken.
AfterProcessEdgeOkIgnored(node, edge, ok, err, o, k) ==
    IF err # Nil THEN ReturnErr(err, k) ELSE Accepted(node, edge, o, k)

\* What ProcessNode does with what ProcessEdge returned.
AfterProcessEdge(node, edge, ok, err, o, k) ==
    IF err # Nil THEN ReturnErr(err, k)
    ELSE IF ok THEN Accepted(node, edge, o, k)
    ELSE NextEdge(o, k)

\* NodeHandlerFailed wrapping the handler's error in one of its own.
NodeHandlerErrWrapped(err) == [kind |-> "wrapped", arg |-> err.arg]

\* What ProcessNode returns when the node's handler returned err.
NodeHandlerFailed(err) == err

\* AfterHandlerReturned without the test of err.
AfterHandlerErrIgnored(err, edge, o, k) == StateChange(edge, o, k)

\* What ProcessNode does with what the node's after-handler returned.
AfterHandlerReturned(err, edge, o, k) ==
    IF err # Nil THEN ReturnErr(err, k) ELSE StateChange(edge, o, k)

\* CirculateReturned taking the callback's false for a declined edge.
CirculateFalseDeclines(ok, err, edge, o, k) ==
    IF err # Nil THEN ReturnErr(err, k)
    ELSE IF ok THEN BeforeDst(edge, o, k)
    ELSE NextEdge(o, k)

\* What ProcessNode does with what the circulate callback returned: ok is
\* assigned and not read again.
CirculateReturned(ok, err, edge, o, k) ==
    IF err # Nil THEN ReturnErr(err, k) ELSE BeforeDst(edge, o, k)

\* EdgeHandlerMissing reporting a declined edge instead of an error.
EdgeHandlerMissingSkipped(edgeType) == [ok |-> FALSE, err |-> Nil]

\* What ProcessEdge returns for an edge type without a registered handler.
EdgeHandlerMissing(edgeType) == [ok |-> FALSE, err |-> ErrNoEdgeHandler(edgeType)]

\* LookupNode reporting a missing handler with the missing node's error.
LookupNodeOneError(nodeID) ==
    IF ~GetNodeByID(nodeID).exists
       \/ ~GetNodeHandler(GetNodeByID(nodeID).node.NodeType).exists
    THEN ReturnErr(ErrNodeNotExist(nodeID), 0)
    ELSE Goto("node", 0)

\* LookupNode without the test that the node's type has a handler.
LookupNodeUnchecked(nodeID) ==
    IF ~GetNodeByID(nodeID).exists THEN ReturnErr(ErrNodeNotExist(nodeID), 0)
    ELSE Goto("node", 0)

\* The lookups that open ProcessNode: the node, then its type's handler.
LookupNode(nodeID) ==
    LET found == GetNodeByID(nodeID) IN
    IF ~found.exists THEN ReturnErr(ErrNodeNotExist(nodeID), 0)
    ELSE IF ~GetNodeHandler(found.node.NodeType).exists
         THEN ReturnErr(ErrNoNodeHandler(found.node.NodeType), 0)
    ELSE Goto("node", 0)

Move(i, to) ==
    /\ pc' = [pc EXCEPT ![i] = to.pc]
    /\ result' = [result EXCEPT ![i] = to.result]
    /\ idx' = [idx EXCEPT ![i] = to.idx]

Record(i, inv) == log' = [log EXCEPT ![i] = Append(@, inv)]

CurNode(i) == nodes[arg[i]]

\* CurEdge kept in one place for all calls: the edge of the first instance's
\* loop while that instance is in its loop.
CurEdgeShared(i) ==
    IF idx[1] \in DOMAIN outgoing[1] THEN outgoing[1][idx[1]]
    ELSE outgoing[i][idx[i]]

CurEdge(i) == outgoing[i][idx[i]]

\* The call, up to the invocation of the node's handler.
ProcessNode(i, nodeID) ==
    /\ built
    /\ i \in active
    /\ pc[i] = "idle"
    /\ arg' = [arg EXCEPT ![i] = nodeID]
    /\ Move(i, LookupNode(nodeID))
    /\ UNCHANGED <<graphVars, registryVars, outgoing, log, callerVars, orderSeen,
                   queried>>

\* The node's handler runs; on success the outgoing edges are fetched.
NodeHandler(i, err) ==
    /\ pc[i] = "node"
    /\ Record(i, Invocation("node", arg[i], err = Nil, err))
    /\ IF err # Nil
       THEN /\ Move(i, ReturnErr(NodeHandlerFailed(err), 0))
            /\ UNCHANGED <<outgoing, orderSeen>>
       ELSE \E o \in GetOutgoingEdges(arg[i]) :
              /\ outgoing' = [outgoing EXCEPT ![i] = o]
              /\ orderSeen' = IF orderSeen[arg[i]] = NoOrder
                              THEN [orderSeen EXCEPT ![arg[i]] = IDs(o)]
                              ELSE orderSeen
              /\ Move(i, NextEdge(o, 0))
    /\ UNCHANGED <<graphVars, registryVars, arg, callerVars, queried>>

\* ProcessEdge deleting the edge it has evaluated from the graph.
ProcessEdgeConsuming(i, ok, err) ==
    /\ pc[i] = "edge"
    /\ Record(i, Invocation("edge", CurEdge(i).ID, ok, err))
    /\ Move(i, AfterProcessEdge(CurNode(i), CurEdge(i), ok, err, outgoing[i], idx[i]))
    /\ edges' = [id \in DOMAIN edges \ {CurEdge(i).ID} |-> edges[id]]
    /\ UNCHANGED <<process, built, nodes, registryVars, arg, outgoing, callerVars,
                   orderSeen, queried>>

\* ProcessEdge on the loop's edge: the edge handler is looked up and run.
ProcessEdge(i, ok, err) ==
    /\ pc[i] = "edge"
    /\ IF ~GetEdgeHandler(CurEdge(i).EdgeType).exists
       THEN /\ LET r == EdgeHandlerMissing(CurEdge(i).EdgeType) IN
               Move(i, AfterProcessEdge(CurNode(i), CurEdge(i), r.ok, r.err,
                                        outgoing[i], idx[i]))
            /\ UNCHANGED log
       ELSE /\ Record(i, Invocation("edge", CurEdge(i).ID, ok, err))
            /\ Move(i, AfterProcessEdge(CurNode(i), CurEdge(i), ok, err,
                                        outgoing[i], idx[i]))
    /\ UNCHANGED <<graphVars, registryVars, arg, outgoing, callerVars, orderSeen,
                   queried>>

NodeAfterHandler(i, err) ==
    /\ pc[i] = "after"
    /\ Record(i, Invocation("after", arg[i], err = Nil, err))
    /\ Move(i, AfterHandlerReturned(err, CurEdge(i), outgoing[i], idx[i]))
    /\ UNCHANGED <<graphVars, registryVars, arg, outgoing, callerVars, orderSeen,
                   queried>>

CirculateHandler(i, ok, err) ==
    /\ pc[i] = "circulate"
    /\ Record(i, Invocation("circulate", CurEdge(i).ID, ok, err))
    /\ Move(i, CirculateReturned(ok, err, CurEdge(i), outgoing[i], idx[i]))
    /\ UNCHANGED <<graphVars, registryVars, arg, outgoing, callerVars, orderSeen,
                   queried>>

NodeBeforeHandler(i, err) ==
    /\ pc[i] = "before"
    /\ Record(i, Invocation("before", CurEdge(i).DstID, err = Nil, err))
    /\ Move(i, IF err # Nil THEN ReturnErr(err, idx[i])
               ELSE Break(outgoing[i], idx[i]))
    /\ UNCHANGED <<graphVars, registryVars, arg, outgoing, callerVars, orderSeen,
                   queried>>

\* The caller has the call's result; the instance may call again.
Return(i) ==
    /\ pc[i] = "done"
    /\ pc' = [pc EXCEPT ![i] = "idle"]
    /\ arg' = [arg EXCEPT ![i] = ""]
    /\ outgoing' = [outgoing EXCEPT ![i] = <<>>]
    /\ idx' = [idx EXCEPT ![i] = 0]
    /\ log' = [log EXCEPT ![i] = <<>>]
    /\ result' = [result EXCEPT ![i] = Pending]
    /\ UNCHANGED <<graphVars, registryVars, callerVars, orderSeen, queried>>

----------------------------------------------------------------------------
\* The registries explored: each map holds one handler for some of the types;
\* the edge handler of type x is registered.
Handlers(types) == [types -> {NoHandler, "h"}]

InitCalls ==
    /\ pc = [i \in Inst |-> "idle"]
    /\ arg = [i \in Inst |-> ""]
    /\ outgoing = [i \in Inst |-> <<>>]
    /\ idx = [i \in Inst |-> 0]
    /\ log = [i \in Inst |-> <<>>]
    /\ result = [i \in Inst |-> Pending]
    /\ orderSeen = [n \in NodeIDs |-> NoOrder]
    /\ path = [i \in Inst |-> <<>>]
    /\ queried = NoQuery

Init ==
    /\ process \in [Nodes : {DefNodes}, Edges : EdgeSeqs]
    /\ built = FALSE
    /\ nodes = <<>>
    /\ edges = <<>>
    /\ nodeHandlers \in Handlers(NodeTypes)
    /\ nodeAfterHandlers \in Handlers(NodeTypes)
    /\ nodeBeforeHandlers \in Handlers(NodeTypes)
    /\ edgeHandlers \in {r \in Handlers(EdgeTypes) : r["x"] # NoHandler}
    /\ circulate \in {NoHandler, "c"}
    /\ regLog = <<>>
    /\ active = {1}
    /\ InitCalls

Errs == {Nil} \cup HandlerErrs

Next ==
    \/ NewProcess
    \/ \E i \in Inst, nodeID \in NodeIDs : ProcessNode(i, nodeID)
    \/ \E i \in Inst, err \in Errs : NodeHandler(i, err)
    \/ \E i \in Inst, ok \in BOOLEAN, err \in Errs : ProcessEdge(i, ok, err)
    \/ \E i \in Inst, err \in Errs : NodeAfterHandler(i, err)
    \/ \E i \in Inst, ok \in BOOLEAN, err \in Errs : CirculateHandler(i, ok, err)
    \/ \E i \in Inst, err \in Errs : NodeBeforeHandler(i, err)
    \/ \E i \in Inst : Return(i)

Spec == Init /\ [][Next]_vars

\* The graph alone: a definition, NewProcess, and GetNextNodes queries; no
\* handler is registered and nobody calls ProcessNode.
InitGraph ==
    /\ process \in [Nodes : {DefNodes}, Edges : EdgeSeqs]
    /\ built = FALSE
    /\ nodes = <<>>
    /\ edges = <<>>
    /\ nodeHandlers = [t \in NodeTypes |-> NoHandler]
    /\ nodeAfterHandlers = [t \in NodeTypes |-> NoHandler]
    /\ nodeBeforeHandlers = [t \in NodeTypes |-> NoHandler]
    /\ edgeHandlers = [t \in EdgeTypes |-> NoHandler]
    /\ circulate = NoHandler
    /\ regLog = <<>>
    /\ active = {}
    /\ InitCalls

NextGraph ==
    \/ NewProcess
    \/ \E nodeID \in NodeIDs : GetNextNodesCall(nodeID)

SpecGraph == InitGraph /\ [][NextGraph]_vars

\* The registry alone: NewProcessRegistry, then Register calls.
InitRegistry ==
    /\ process = [Nodes |-> DefNodes, Edges |-> <<>>]
    /\ built = FALSE
    /\ nodes = <<>>
    /\ edges = <<>>
    /\ nodeHandlers = [t \in NodeTypes |-> NoHandler]
    /\ nodeAfterHandlers = [t \in NodeTypes |-> NoHandler]
    /\ nodeBeforeHandlers = [t \in NodeTypes |-> NoHandler]
    /\ edgeHandlers = [t \in EdgeTypes |-> NoHandler]
    /\ circulate = NoHandler
    /\ regLog = <<>>
    /\ active = {}
    /\ InitCalls

NextRegistry ==
    \/ \E t \in NodeTypes, h \in HandlerIDs : RegisterNodeHandler(t, h)
    \/ \E t \in NodeTypes, h \in HandlerIDs : RegisterNodeAfterHandler(t, h)
    \/ \E t \in NodeTypes, h \in HandlerIDs : RegisterNodeBeforeHandler(t, h)
    \/ \E t \in EdgeTypes, h \in HandlerIDs : RegisterEdgeHandler(t, h)

SpecRegistry == InitRegistry /\ [][NextRegistry]_vars

----------------------------------------------------------------------------
\* Reading a call's log

\* The outgoing edges of the call's node, as the graph holds them.
OutEdges(i) == {e \in Range(edges) : e.SrcID = arg[i]}

\* The log positions of edge-handler invocations, and of those that returned
\* (true, nil).
EdgeCalls(i) == {k \in DOMAIN log[i] : log[i][k].h = "edge"}
AcceptCalls(i) == {k \in EdgeCalls(i) : log[i][k].ok /\ log[i][k].err = Nil}
Calls(i, h) == {k \in DOMAIN log[i] : log[i][k].h = h}

\* The position of id in a sequence of IDs (0 when absent).
Pos(s, id) == IF \E k \in DOMAIN s : s[k] = id
              THEN CHOOSE k \in DOMAIN s : s[k] = id ELSE 0

----------------------------------------------------------------------------
\* C1: when the outgoing edges of the call's node have pairwise distinct
\* priorities, the edge handlers of one ProcessNode call are invoked in
\* strictly ascending Priority, whatever the declaration order.
C1_AscendingPriorityOrder ==
    \A i \in Inst :
        (\A a, b \in OutEdges(i) : a # b => a.Priority # b.Priority) =>
            \A j, k \in EdgeCalls(i) :
                j < k => edges[log[i][j].arg].Priority < edges[log[i][k].arg].Priority

\* C2: edges of equal Priority are evaluated in one fixed order: every call
\* on a node gets them in the relative order the first call on it got them.
C2_EqualPriorityOrderFixed ==
    \A i \in Inst :
        (pc[i] # "idle" /\ orderSeen[arg[i]] # NoOrder) =>
            \A j, k \in DOMAIN outgoing[i] :
                (j < k /\ outgoing[i][j].Priority = outgoing[i][k].Priority) =>
                    Pos(orderSeen[arg[i]], outgoing[i][j].ID)
                        < Pos(orderSeen[arg[i]], outgoing[i][k].ID)

\* C3: once an edge handler has returned (true, nil), the call invokes no
\* further edge handler; at most one edge is accepted per call.
C3_StopAtFirstAccepted ==
    \A i \in Inst :
        /\ \A j \in AcceptCalls(i) : \A k \in EdgeCalls(i) : k <= j
        /\ Cardinality(AcceptCalls(i)) <= 1

\* A call that accepted an edge with a later edge left unevaluated, and returned.
C3_Witness ==
    \E i \in Inst :
        /\ pc[i] = "done" /\ result[i] = Nil
        /\ AcceptCalls(i) # {}
        /\ idx[i] < Len(outgoing[i])

\* The hooks of a call: after-handler, circulate callback, before-handler.
Hooks == {"after", "circulate", "before"}
HookCalls(i) == {k \in DOMAIN log[i] : log[i][k].h \in Hooks}
Last(s) == s[Len(s)]

\* The hook invocations due once edge e is accepted in a call on node src,
\* when none of them fails: read off the registry and the graph.
Due(src, e) ==
    (IF nodeAfterHandlers[nodes[src].NodeType] # NoHandler
     THEN <<[h |-> "after", arg |-> src]>> ELSE <<>>)
    \o (IF circulate # NoHandler
        THEN <<[h |-> "circulate", arg |-> e.ID]>> ELSE <<>>)
    \o (IF e.DstID \in DOMAIN nodes
           /\ nodeBeforeHandlers[nodes[e.DstID].NodeType] # NoHandler
        THEN <<[h |-> "before", arg |-> e.DstID]>> ELSE <<>>)

\* C4: after an edge is accepted the call invokes the source's after-handler
\* (if registered), the circulate callback on that edge (if set) and the
\* destination's before-handler (if registered), in this order and nothing
\* else; the first of them to return an error ends the call with that error.
C4_HookOrder ==
    \A i \in Inst :
        /\ AcceptCalls(i) = {} => HookCalls(i) = {}
        /\ \A a \in AcceptCalls(i) :
            LET tail == SubSeq(log[i], a + 1, Len(log[i]))
                due == Due(arg[i], edges[log[i][a].arg])
            IN  /\ Len(tail) <= Len(due)
                /\ \A k \in DOMAIN tail :
                      /\ tail[k].h = due[k].h
                      /\ tail[k].arg = due[k].arg
                      /\ k < Len(tail) => tail[k].err = Nil
                /\ (tail # <<>> /\ Last(tail).err # Nil) =>
                      (pc[i] = "done" /\ result[i] = Last(tail).err)
                /\ (pc[i] = "done" /\ (tail = <<>> \/ Last(tail).err = Nil)) =>
                      Len(tail) = Len(due)

\* A returned call that ran all three hooks, one after the other.
C4_Witness ==
    \E i \in Inst :
        /\ pc[i] = "done" /\ result[i] = Nil
        /\ \E k \in DOMAIN log[i] :
              /\ k + 2 = Len(log[i])
              /\ log[i][k].h = "after"
              /\ log[i][k + 1].h = "circulate"
              /\ log[i][k + 2].h = "before"

\* C5: a call on a node of the graph whose type has no registered node
\* handler returns the handler-not-found error and invokes no handler at all.
C5_NoNodeHandler ==
    \A i \in Inst :
        (/\ pc[i] # "idle"
         /\ arg[i] \in DOMAIN nodes
         /\ nodeHandlers[nodes[arg[i]].NodeType] = NoHandler) =>
            /\ pc[i] = "done"
            /\ result[i] = ErrNoNodeHandler(nodes[arg[i]].NodeType)
            /\ log[i] = <<>>

\* Such a call on a node that has an outgoing edge with a registered handler.
C5_Witness ==
    \E i \in Inst :
        /\ pc[i] = "done"
        /\ arg[i] \in DOMAIN nodes
        /\ result[i] = ErrNoNodeHandler(nodes[arg[i]].NodeType)
        /\ \E e \in OutEdges(i) : edgeHandlers[e.EdgeType] # NoHandler
        /\ nodeAfterHandlers[nodes[arg[i]].NodeType] # NoHandler
        /\ circulate # NoHandler

\* C6: when the node's handler returns an error, the call returns that very
\* error value and invokes nothing else.
C6_NodeHandlerError ==
    \A i \in Inst :
        \A k \in Calls(i, "node") :
            log[i][k].err # Nil =>
                /\ Len(log[i]) = 1
                /\ pc[i] = "done"
                /\ result[i] = log[i][k].err

\* The node handler failed on a node that has outgoing edges.
C6_Witness ==
    \E i \in Inst :
        /\ pc[i] = "done"
        /\ log[i] # <<>> /\ log[i][1].h = "node" /\ log[i][1].err \in HandlerErrs
        /\ OutEdges(i) # {}

\* Every outgoing edge of the call's node has had its handler invoked, and
\* the handler returned (false, nil); true of a node without outgoing edges.
AllDeclined(i) ==
    \A e \in OutEdges(i) :
        \E k \in EdgeCalls(i) :
            log[i][k].arg = e.ID /\ ~log[i][k].ok /\ log[i][k].err = Nil

\* C7: once the node's handler has succeeded, if every edge handler of the
\* node's outgoing edges declines, or there is no outgoing edge, the call
\* returns nil and invokes no after-handler, circulate callback or
\* before-handler.
C7_AllDeclined ==
    \A i \in Inst :
        (/\ Calls(i, "node") # {}
         /\ \A k \in Calls(i, "node") : log[i][k].err = Nil
         /\ AllDeclined(i)) =>
            /\ pc[i] = "done"
            /\ result[i] = Nil
            /\ HookCalls(i) = {}

\* Two edges declined in one call, with every hook registered.
C7_Witness ==
    \E i \in Inst :
        /\ pc[i] = "done" /\ result[i] = Nil
        /\ Cardinality(OutEdges(i)) >= 2
        /\ AllDeclined(i)
        /\ circulate # NoHandler
        /\ \A t \in NodeTypes :
              nodeAfterHandlers[t] # NoHandler /\ nodeBeforeHandlers[t] # NoHandler

\* C8: a call invokes the circulate callback at most once, with the edge its
\* edge handler accepted, and after the source's after-handler (when one is
\* registered) has returned nil.
C8_CirculateOnce ==
    \A i \in Inst :
        /\ Cardinality(Calls(i, "circulate")) <= 1
        /\ \A c \in Calls(i, "circulate") :
              /\ \E a \in AcceptCalls(i) : a < c /\ log[i][a].arg = log[i][c].arg
              /\ \A f \in Calls(i, "after") : f < c /\ log[i][f].err = Nil
              /\ nodeAfterHandlers[nodes[arg[i]].NodeType] # NoHandler =>
                    \E f \in Calls(i, "after") : f < c

\* The callback ran after an after-handler that returned nil, on the second
\* edge evaluated.
C8_Witness ==
    \E i \in Inst :
        \E c \in Calls(i, "circulate") :
            /\ c = 4
            /\ log[i][c - 1].h = "after" /\ log[i][c - 1].err = Nil
            /\ log[i][c - 2].h = "edge" /\ log[i][c - 2].arg = log[i][c].arg

\* C9: an edge whose type has no registered edge handler, or whose handler
\* returns an error, ends the call at once with an error: it is the last edge
\* evaluated, no hook is invoked, and a missing handler is not a decline.
C9_EdgeFailureAborts ==
    \A i \in Inst :
        /\ \A k \in EdgeCalls(i) :
              /\ \E j \in 1..idx[i] : outgoing[i][j].ID = log[i][k].arg
              /\ log[i][k].err # Nil =>
                    /\ k = Len(log[i])
                    /\ log[i][k].arg = outgoing[i][idx[i]].ID
                    /\ pc[i] = "done"
                    /\ result[i] = log[i][k].err
        /\ \A j \in 1..idx[i] :
              edgeHandlers[outgoing[i][j].EdgeType] = NoHandler =>
                  /\ j = idx[i]
                  /\ HookCalls(i) = {}
                  /\ \A k \in EdgeCalls(i) : log[i][k].arg # outgoing[i][j].ID
                  /\ \/ pc[i] = "edge"
                     \/ /\ pc[i] = "done"
                        /\ result[i] = ErrNoEdgeHandler(outgoing[i][j].EdgeType)

\* The first edge of two had no handler: the call returned with the second
\* edge left alone.
C9_Witness ==
    \E i \in Inst :
        /\ pc[i] = "done"
        /\ idx[i] = 1 /\ Len(outgoing[i]) = 2
        /\ result[i] = ErrNoEdgeHandler(outgoing[i][1].EdgeType)
        /\ edgeHandlers[outgoing[i][2].EdgeType] # NoHandler

\* The edge's DstID is the ID of no node of the definition.
Dangling(e) == \A k \in DOMAIN process.Nodes : process.Nodes[k].ID # e.DstID

\* C10: NewProcess indexes every edge of the definition, dangling or not;
\* GetNextNodeByEdge fails exactly for the dangling edges; and a call that
\* accepts a dangling edge invokes no before-handler and returns the lookup
\* error, unless the after-handler or the callback failed first.
C10_DanglingDestination ==
    built =>
        /\ \A k \in DOMAIN process.Edges :
              /\ process.Edges[k].ID \in DOMAIN edges
              /\ edges[process.Edges[k].ID] = process.Edges[k]
        /\ \A e \in Range(edges) :
              /\ GetNextNodeByEdge(e).err # Nil <=> Dangling(e)
              /\ Dangling(e) => GetNextNodeByEdge(e).err = ErrNoDstNode(e.ID)
              /\ ~Dangling(e) => GetNextNodeByEdge(e).node.ID = e.DstID
        /\ \A i \in Inst : \A a \in AcceptCalls(i) :
              Dangling(edges[log[i][a].arg]) =>
                  /\ Calls(i, "before") = {}
                  /\ pc[i] = "done" =>
                        \/ result[i] = ErrNoDstNode(log[i][a].arg)
                        \/ /\ Last(log[i]).h \in {"after", "circulate"}
                           /\ Last(log[i]).err # Nil
                           /\ result[i] = Last(log[i]).err

\* A call accepted a dangling edge, the callback succeeded, and the call
\* returned the lookup error although before-handlers are registered.
C10_Witness ==
    \E i \in Inst :
        /\ pc[i] = "done"
        /\ \E a \in AcceptCalls(i) :
              /\ Dangling(edges[log[i][a].arg])
              /\ result[i] = ErrNoDstNode(log[i][a].arg)
        /\ Last(log[i]).h = "circulate"
        /\ \A t \in NodeTypes : nodeBeforeHandlers[t] # NoHandler

\* A handler invocation of the call returned an error.
HandlerFailed(i) == log[i] # <<>> /\ Last(log[i]).err # Nil

\* C11: a call that returns an error has recorded no transition: no circulate
\* callback returned (true, nil) in it.
C11_NoCommitOnError ==
    \A i \in Inst :
        (pc[i] = "done" /\ result[i] # Nil) =>
            \A c \in Calls(i, "circulate") : ~(log[i][c].ok /\ log[i][c].err = Nil)

\* C12 as claimed: the error of a failing call is one of the four outcomes,
\* a handler's error being wrapped, not returned as the handler gave it.
C12_ErrorIdentifiesFailure ==
    \A i \in Inst :
        (pc[i] = "done" /\ result[i] # Nil) =>
            /\ HandlerFailed(i) => result[i] # Last(log[i]).err
            /\ result[i].kind \in {"NodeNotExist", "NoNodeHandler", "NoEdgeHandler",
                                   "NoDstNode", "HandlerExecution"}

\* C12, amended: a failing call returns the engine's own error for a node
\* lookup miss, a missing node or edge handler and an unresolved destination,
\* each naming what was missing; a failing handler's error is returned as the
\* handler gave it.
C12_ErrorsAsReturned ==
    \A i \in Inst :
        (pc[i] = "done" /\ result[i] # Nil) =>
            \/ /\ Dangling([DstID |-> arg[i]])
               /\ log[i] = <<>>
               /\ result[i] = [kind |-> "NodeNotExist", arg |-> arg[i]]
            \/ /\ ~Dangling([DstID |-> arg[i]])
               /\ nodeHandlers[nodes[arg[i]].NodeType] = NoHandler
               /\ log[i] = <<>>
               /\ result[i] = [kind |-> "NoNodeHandler", arg |-> nodes[arg[i]].NodeType]
            \/ /\ HandlerFailed(i)
               /\ result[i] = Last(log[i]).err
            \/ /\ log[i] # <<>> /\ ~HandlerFailed(i)
               /\ AcceptCalls(i) = {}
               /\ idx[i] \in DOMAIN outgoing[i]
               /\ edgeHandlers[outgoing[i][idx[i]].EdgeType] = NoHandler
               /\ result[i] = [kind |-> "NoEdgeHandler",
                               arg |-> outgoing[i][idx[i]].EdgeType]
            \/ /\ log[i] # <<>> /\ ~HandlerFailed(i)
               /\ \E a \in AcceptCalls(i) :
                     /\ Dangling(edges[log[i][a].arg])
                     /\ result[i] = [kind |-> "NoDstNode", arg |-> log[i][a].arg]

\* The after-handler and the node handler can fail with the same value: a
\* call returned the after-handler's error as it was.
C12_Witness ==
    \E i \in Inst :
        /\ pc[i] = "done"
        /\ HandlerFailed(i)
        /\ Last(log[i]).h = "after"
        /\ result[i] = Last(log[i]).err
        /\ result[i] \in HandlerErrs

\* C14: a call invokes the node handler at most once, for its own node, and
\* evaluates only edges whose source is that node: it takes at most one
\* transition and does not go on to the destination.
C14_OneNodePerCall ==
    \A i \in Inst :
        /\ Cardinality(Calls(i, "node")) <= 1
        /\ \A k \in Calls(i, "node") : k = 1 /\ log[i][k].arg = arg[i]
        /\ \A k \in EdgeCalls(i) : edges[log[i][k].arg].SrcID = arg[i]
        /\ Cardinality(AcceptCalls(i)) <= 1

\* A call returned after a transition to a node that has a registered
\* handler and an outgoing edge of its own.
C14_Witness ==
    \E i \in Inst :
        /\ pc[i] = "done" /\ result[i] = Nil
        /\ \E a \in AcceptCalls(i) :
              LET dst == edges[log[i][a].arg].DstID IN
              /\ dst \in DOMAIN nodes
              /\ nodeHandlers[nodes[dst].NodeType] # NoHandler
              /\ \E e \in Range(edges) : e.SrcID = dst
        /\ Cardinality(Calls(i, "node")) = 1

\* C20: when the circulate callback returns (false, nil) the call goes on as
\* for (true, nil): no further edge is evaluated, the destination is resolved,
\* its before-handler (if registered) is invoked next, and the call returns
\* nil unless the destination is missing or the before-handler fails.
C20_CirculateBoolIgnored ==
    \A i \in Inst :
        \A c \in Calls(i, "circulate") :
            (~log[i][c].ok /\ log[i][c].err = Nil) =>
                LET e == edges[log[i][c].arg]
                    due == ~Dangling(e)
                           /\ nodeBeforeHandlers[nodes[e.DstID].NodeType] # NoHandler
                IN  /\ \A k \in EdgeCalls(i) : k < c
                    /\ e = outgoing[i][idx[i]]
                    /\ c < Len(log[i]) =>
                          /\ Len(log[i]) = c + 1
                          /\ log[i][c + 1].h = "before"
                          /\ log[i][c + 1].arg = e.DstID
                    /\ due => (pc[i] = "before" \/ Len(log[i]) = c + 1)
                    /\ ~due => (pc[i] = "done" /\ Len(log[i]) = c)
                    /\ pc[i] = "done" =>
                          result[i] = IF Dangling(e) THEN ErrNoDstNode(e.ID)
                                      ELSE Last(log[i]).err

\* The callback returned (false, nil) with a later edge left, the
\* before-handler ran, and the call returned nil.
C20_Witness ==
    \E i \in Inst :
        /\ pc[i] = "done" /\ result[i] = Nil
        /\ idx[i] < Len(outgoing[i])
        /\ \E c \in Calls(i, "circulate") :
              /\ ~log[i][c].ok
              /\ c + 1 = Len(log[i])
              /\ log[i][c + 1].h = "before"

\* C16: the caller's Process is read-only input: no step, NewProcess
\* included, changes Process.Nodes or Process.Edges or their order.
C16_DefinitionUnchanged == [][process' = process]_vars

\* C18: once the graph is built, no step of a ProcessNode or ProcessEdge call
\* changes the graph's nodes and edges, the four handler maps or the
\* ProcessHandler's circulate field.
C18_GraphAndRegistryReadOnly ==
    [][built =>
          /\ nodes' = nodes
          /\ edges' = edges
          /\ nodeHandlers' = nodeHandlers
          /\ nodeAfterHandlers' = nodeAfterHandlers
          /\ nodeBeforeHandlers' = nodeBeforeHandlers
          /\ edgeHandlers' = edgeHandlers
          /\ circulate' = circulate]_vars

\* A call ran hooks and failed, and the graph is still the index of the
\* definition.
C18_Witness ==
    \E i \in Inst :
        /\ pc[i] = "done" /\ result[i] # Nil
        /\ HookCalls(i) # {}
        /\ nodes = IndexByID(process.Nodes)
        /\ edges = IndexByID(process.Edges)
        /\ edges # <<>>

\* C19 as claimed: GetNextNodes returns, without error, one node per
\* outgoing edge: the edge's destination, in the order of the edges.
C19_OneNodePerEdge ==
    queried.nodeID # "" =>
        /\ queried.err = Nil
        /\ Len(queried.nodes) = Len(queried.edges)
        /\ \A k \in DOMAIN queried.edges :
              k \in DOMAIN queried.nodes /\ queried.nodes[k].ID = queried.edges[k].DstID

\* The positions of s whose edge has a destination among the definition's nodes.
Resolved(s) == {k \in DOMAIN s : ~Dangling(s[k])}

\* C19, amended: GetNextNodes returns, without error, the destination nodes
\* of those outgoing edges of nodeID whose DstID names a node, one per such
\* edge and in the order in which it went over the edges; an edge with a
\* dangling DstID contributes nothing.
C19_NodesOfResolvedEdges ==
    queried.nodeID # "" =>
        /\ queried.err = Nil
        /\ Range(queried.edges) = {e \in Range(edges) : e.SrcID = queried.nodeID}
        /\ Len(queried.edges) = Cardinality(Range(queried.edges))
        /\ Len(queried.nodes) = Cardinality(Resolved(queried.edges))
        /\ \A k \in Resolved(queried.edges) :
              LET j == Cardinality({m \in Resolved(queried.edges) : m <= k}) IN
              /\ j \in DOMAIN queried.nodes
              /\ queried.nodes[j].ID = queried.edges[k].DstID
              /\ \E n \in DOMAIN process.Nodes : process.Nodes[n] = queried.nodes[j]

\* A query over two outgoing edges, the first of them dangling: one node.
C19_Witness ==
    /\ Len(queried.edges) = 2
    /\ Dangling(queried.edges[1])
    /\ Len(queried.nodes) = 1
    /\ queried.nodes[1].ID = queried.edges[2].DstID

\* The Register calls made so far for tag under kind, as positions of regLog.
Registered(kind, tag) ==
    {k \in DOMAIN regLog : regLog[k].kind = kind /\ regLog[k].tag = tag}

\* What a Get of that kind has to return for tag: the handler of the latest
\* Register call of the kind for the tag, not-found when there is none.
LatestRegistered(kind, tag) ==
    IF Registered(kind, tag) = {}
    THEN [handler |-> NoHandler, exists |-> FALSE]
    ELSE [handler |-> regLog[CHOOSE k \in Registered(kind, tag) :
                                 \A m \in Registered(kind, tag) : m <= k].handler,
          exists |-> TRUE]

\* C15: after any sequence of Register calls each of the four Gets returns,
\* for every tag, the handler of the most recent Register call of its own kind
\* for that tag, and not-found when there was none; so a registration under
\* another kind or tag does not change it.
C15_GetReturnsLatestRegistered ==
    /\ \A t \in NodeTypes :
          /\ GetNodeHandler(t) = LatestRegistered("node", t)
          /\ GetNodeAfterHandler(t) = LatestRegistered("nodeAfter", t)
          /\ GetNodeBeforeHandler(t) = LatestRegistered("nodeBefore", t)
    /\ \A t \in EdgeTypes : GetEdgeHandler(t) = LatestRegistered("edge", t)

\* A tag registered twice under one kind with different handlers, and a
\* registration under another kind for the same tag in between.
C15_Witness ==
    \E j, k, m \in DOMAIN regLog :
        /\ j < m /\ m < k
        /\ regLog[j].kind = regLog[k].kind /\ regLog[j].tag = regLog[k].tag
        /\ regLog[j].handler # regLog[k].handler
        /\ regLog[m].kind # regLog[j].kind /\ regLog[m].tag = regLog[j].tag

----------------------------------------------------------------------------
\* A caller that walks the graph: it calls ProcessNode on the node it stands
\* at and, when the call accepted an edge, moves to that edge's destination.

\* The leave-style definitions: three nodes, edges that lead forward only
\* (so every definition is acyclic), one of them to a node that is not defined.
FollowNodes == <<Node("A", "tA"), Node("B", "tB"), Node("C", "tA")>>

FollowIDs == {"A", "B", "C"}

FollowPool ==
    { Edge("ab", "A", "B", 1, "x"),
      Edge("bc", "B", "C", 1, "y"),
      Edge("ac", "A", "C", 2, "x"),
      Edge("bz", "B", "Z", 1, "x") }

FollowEdgeSeqs ==
    UNION { {s \in [1..n -> FollowPool] :
                \A j, k \in 1..n : j # k => s[j].ID # s[k].ID} : n \in 0..MaxEdges }

\* The caller's next ProcessNode call, on the node it stands at.
Step(i) == ProcessNode(i, Last(path[i]))

\* The call returned success after accepting an edge: the caller resolves the
\* edge's destination and stands there for its next call.
Follow(i) ==
    /\ i \in active
    /\ pc[i] = "done"
    /\ result[i] = Nil
    /\ AcceptCalls(i) # {}
    /\ GetNextNodeByEdge(CurEdge(i)).err = Nil
    /\ path' = [path EXCEPT ![i] = Append(@, GetNextNodeByEdge(CurEdge(i)).node.ID)]
    /\ pc' = [pc EXCEPT ![i] = "idle"]
    /\ arg' = [arg EXCEPT ![i] = ""]
    /\ outgoing' = [outgoing EXCEPT ![i] = <<>>]
    /\ idx' = [idx EXCEPT ![i] = 0]
    /\ log' = [log EXCEPT ![i] = <<>>]
    /\ result' = [result EXCEPT ![i] = Pending]
    /\ UNCHANGED <<graphVars, registryVars, active, orderSeen, queried>>

\* The call failed or made no transition: the caller makes no further call.
Halt(i) ==
    /\ i \in active
    /\ pc[i] = "done"
    /\ result[i] # Nil \/ AcceptCalls(i) = {}
    /\ active' = active \ {i}
    /\ UNCHANGED <<graphVars, registryVars, callVars, path, orderSeen, queried>>

\* Every node type has an on-handler and every edge type a decision-handler;
\* the hooks and the callback are there or not.
InitFollow ==
    /\ process \in [Nodes : {FollowNodes}, Edges : FollowEdgeSeqs]
    /\ built = FALSE
    /\ nodes = <<>>
    /\ edges = <<>>
    /\ nodeHandlers = [t \in NodeTypes |-> "h"]
    /\ nodeAfterHandlers \in Handlers(NodeTypes)
    /\ nodeBeforeHandlers \in Handlers(NodeTypes)
    /\ edgeHandlers = [t \in EdgeTypes |-> "h"]
    /\ circulate \in {NoHandler, "c"}
    /\ regLog = <<>>
    /\ active = {1}
    /\ pc = [i \in Inst |-> "idle"]
    /\ arg = [i \in Inst |-> ""]
    /\ outgoing = [i \in Inst |-> <<>>]
    /\ idx = [i \in Inst |-> 0]
    /\ log = [i \in Inst |-> <<>>]
    /\ result = [i \in Inst |-> Pending]
    /\ orderSeen = [n \in FollowIDs |-> NoOrder]
    /\ path = [i \in Inst |-> IF i = 1 THEN <<"A">> ELSE <<>>]
    /\ queried = NoQuery

\* Every handler succeeds and every decision-handler accepts.
NextFollow ==
    \/ NewProcess
    \/ \E i \in active : Step(i)
    \/ \E i \in Inst : NodeHandler(i, Nil)
    \/ \E i \in Inst : ProcessEdge(i, TRUE, Nil)
    \/ \E i \in Inst : NodeAfterHandler(i, Nil)
    \/ \E i \in Inst, ok \in BOOLEAN : CirculateHandler(i, ok, Nil)
    \/ \E i \in Inst : NodeBeforeHandler(i, Nil)
    \/ \E i \in Inst : Follow(i)
    \/ \E i \in Inst : Halt(i)

\* NewProcess, the handlers and the caller's loop all run to completion.
SpecFollow == InitFollow /\ [][NextFollow]_vars /\ WF_vars(NextFollow)

\* The node has no outgoing edge in the definition.
Sink(n) == \A k \in DOMAIN process.Edges : process.Edges[k].SrcID # n

\* Every edge of the definition leads to a node of the definition.
WellFormed == \A k \in DOMAIN process.Edges : ~Dangling(process.Edges[k])

\* Every finished call of a walking caller returned success, and the caller
\* got from node to node along edges of the definition.
WalkSucceeds ==
    \A i \in Inst :
        /\ pc[i] = "done" => result[i] = Nil
        /\ \A k \in 1..(Len(path[i]) - 1) :
              \E n \in DOMAIN process.Edges :
                  /\ process.Edges[n].SrcID = path[i][k]
                  /\ process.Edges[n].DstID = path[i][k + 1]

\* The caller's last call was on a node without outgoing edges: it ran that
\* node's on-handler and nothing else and returned success.
AtEnd(i) ==
    /\ i \notin active
    /\ pc[i] = "done"
    /\ result[i] = Nil
    /\ arg[i] = Last(path[i])
    /\ Sink(arg[i])
    /\ log[i] = <<Invocation("node", arg[i], TRUE, Nil)>>

\* C13 as claimed: on every acyclic definition, with all handlers succeeding
\* and accepting, every call of the walking caller succeeds and the caller
\* eventually ends at a node without outgoing edges.
C13_WalkReachesEnd ==
    /\ []WalkSucceeds
    /\ <>(\A i \in Inst : path[i] # <<>> => AtEnd(i))

\* C13, amended: the same when, besides, every edge of the definition leads
\* to a node of the definition.
C13_WellFormedWalkReachesEnd ==
    /\ [](WellFormed => WalkSucceeds)
    /\ <>(WellFormed => \A i \in Inst : path[i] # <<>> => AtEnd(i))

\* The caller went from A over B to C and ended there.
C13_Witness ==
    /\ WellFormed
    /\ AtEnd(1)
    /\ path[1] = <<"A", "B", "C">>

----------------------------------------------------------------------------
\* Several instances call ProcessNode on one graph and one registry.

PoolEdge(id) == CHOOSE e \in EdgePool : e.ID = id

\* The definitions of the concurrent runs: two edges of equal priority, two
\* that NewProcess reorders, a cycle, and a dangling edge.
ConcEdgeSeqs ==
    { <<PoolEdge("e1"), PoolEdge("e3")>>, <<PoolEdge("e2"), PoolEdge("e1")>>,
      <<PoolEdge("e1"), PoolEdge("e5")>>, <<PoolEdge("e4"), PoolEdge("e1")>> }

\* Their registries: every node type has an on-handler; the after- and
\* before-handlers are there for all node types or for none.
InitConc ==
    /\ process \in [Nodes : {DefNodes}, Edges : ConcEdgeSeqs]
    /\ built = FALSE
    /\ nodes = <<>>
    /\ edges = <<>>
    /\ nodeHandlers = [t \in NodeTypes |-> "h"]
    /\ nodeAfterHandlers \in {[t \in NodeTypes |-> h] : h \in {NoHandler, "h"}}
    /\ nodeBeforeHandlers = nodeAfterHandlers
    /\ edgeHandlers \in {r \in Handlers(EdgeTypes) : r["x"] # NoHandler}
    /\ circulate \in {NoHandler, "c"}
    /\ regLog = <<>>
    /\ active = Inst
    /\ InitCalls

\* The steps of Next, taken by either instance at any handler-call boundary.
SpecConc == InitConc /\ [][Next]_vars

\* A ProcessNode call on its own: what the call holds between two handler
\* calls, as a record.
CallState(i) ==
    [pc |-> pc[i], idx |-> idx[i], log |-> log[i], result |-> result[i],
     outgoing |-> outgoing[i]]

MovedTo(c, to) == [c EXCEPT !.pc = to.pc, !.result = to.result, !.idx = to.idx]

Logged(c, inv) == [c EXCEPT !.log = Append(@, inv)]

\* The call on nodeID after its opening lookups.
SoloStart(nodeID) ==
    MovedTo([pc |-> "idle", idx |-> 0, log |-> <<>>, result |-> Pending,
             outgoing |-> <<>>],
            LookupNode(nodeID))

\* The call stands at an edge whose type has no handler: ProcessEdge fails
\* without calling anything.
SoloSilent(c) ==
    c.pc = "edge" /\ ~GetEdgeHandler(c.outgoing[c.idx].EdgeType).exists

\* One step of the call on nodeID from c: the handler it stands at returns
\* (ok, err); o is what GetOutgoingEdges gives it.
SoloStep(nodeID, o, c, ok, err) ==
    LET node == nodes[nodeID]
        edge == c.outgoing[c.idx]
    IN  CASE c.pc = "node" ->
               IF err # Nil
               THEN MovedTo(Logged(c, Invocation("node", nodeID, FALSE, err)),
                            ReturnErr(NodeHandlerFailed(err), 0))
               ELSE [MovedTo(Logged(c, Invocation("node", nodeID, TRUE, err)),
                             NextEdge(o, 0)) EXCEPT !.outgoing = o]
          [] c.pc = "edge" ->
               IF SoloSilent(c)
               THEN MovedTo(c, AfterProcessEdge(node, edge,
                                                EdgeHandlerMissing(edge.EdgeType).ok,
                                                EdgeHandlerMissing(edge.EdgeType).err,
                                                c.outgoing, c.idx))
               ELSE MovedTo(Logged(c, Invocation("edge", edge.ID, ok, err)),
                            AfterProcessEdge(node, edge, ok, err, c.outgoing, c.idx))
          [] c.pc = "after" ->
               MovedTo(Logged(c, Invocation("after", nodeID, err = Nil, err)),
                       AfterHandlerReturned(err, edge, c.outgoing, c.idx))
          [] c.pc = "circulate" ->
               MovedTo(Logged(c, Invocation("circulate", edge.ID, ok, err)),
                       CirculateReturned(ok, err, edge, c.outgoing, c.idx))
          [] c.pc = "before" ->
               MovedTo(Logged(c, Invocation("before", edge.DstID, err = Nil, err)),
                       IF err # Nil THEN ReturnErr(err, c.idx)
                       ELSE Break(c.outgoing, c.idx))
          [] OTHER -> c

\* Where the call on nodeID can stand when it runs alone from c and its
\* handlers return, one after the other, what the invocations outs returned.
RECURSIVE SoloRun(_, _, _, _)
SoloRun(nodeID, o, c, outs) ==
    IF c.pc = "done" THEN (IF outs = <<>> THEN {c} ELSE {})
    ELSE IF SoloSilent(c)
         THEN (IF outs = <<>> THEN {c} ELSE {})
              \cup SoloRun(nodeID, o, SoloStep(nodeID, o, c, FALSE, Nil), outs)
    ELSE IF outs = <<>> THEN {c}
    ELSE SoloRun(nodeID, o, SoloStep(nodeID, o, c, Head(outs).ok, Head(outs).err),
                 Tail(outs))

\* What GetOutgoingEdges gave the call, or can give it when it has not asked.
FetchedBy(i) ==
    IF pc[i] = "node" \/ (pc[i] = "done" /\ idx[i] = 0 /\ outgoing[i] = <<>>)
    THEN GetOutgoingEdges(arg[i])
    ELSE {outgoing[i]}

\* C17: with several instances calling concurrently, interleaved at any
\* handler-call boundary, every call stands where the same call run alone
\* stands after the same handler results: the same invocations in the same
\* order, the same position, the same result.
C17_EachCallAsIfAlone ==
    \A i \in Inst :
        pc[i] # "idle" =>
            /\ outgoing[i] = <<>> \/ outgoing[i] \in GetOutgoingEdges(arg[i])
            /\ \E o \in FetchedBy(i) :
                  CallState(i) \in SoloRun(arg[i], o, SoloStart(arg[i]), log[i])

\* Two calls on the same node under way at once: one waits for the callback
\* on its first edge, the other has had its first edge declined and stands at
\* its second.
C17_Witness ==
    /\ arg[1] = arg[2]
    /\ pc[1] = "circulate" /\ idx[1] = 1
    /\ pc[2] = "edge" /\ idx[2] = 2
    /\ outgoing[1] = outgoing[2]

====
